---- MODULE Spec2Model ----
(***************************************************************************)
(* Model of create_ec2.py: the provisioner script run repeatedly against   *)
(* one EC2 account.  The account (key pairs, security groups, instances),  *)
(* the working directory (the .pem file, instance_connection.txt) and the  *)
(* console are the state; every provider call either answers from the      *)
(* account state or raises an error.                                       *)
(***************************************************************************)
EXTENDS Integers, Sequences, FiniteSets, TLC

(* ---------------- bounds ---------------- *)
MaxRuns == 3
MaxTypes == 2

(* ---------------- literals of the script ---------------- *)
None == "<None>"
key_name_literal == "my-python-key"
group_name == "python-sg-for-ssh"
description == "Security group for EC2 instance created via Python"
ami_id == "ami-0c02fb55956c7d316"
report_path == "instance_connection.txt"
(* variant: the rule opens a port range starting at 22 *)
ssh_rule_wide == [IpProtocol |-> "tcp", FromPort |-> 22, ToPort |-> 65535, CidrIp |-> "0.0.0.0/0"]
ssh_rule == [IpProtocol |-> "tcp", FromPort |-> 22, ToPort |-> 22, CidrIp |-> "0.0.0.0/0"]
name_tag == [Key |-> "Name", Value |-> "MyPythonInstance"]

(* ---------------- the provider's answers ---------------- *)
KeyNames == {"my-python-key", "windows-python-key"}
TypeNames == {"t2.micro", "t3.micro"}
PublicIps == {None, "", "203.0.113.5", "198.51.100.7"}
Digits == <<"0", "1", "2", "3", "4", "5", "6", "7", "8", "9">>
NoFault == "none"
OtherCode == "UnauthorizedOperation"
KeyNotFound == "InvalidKeyPair.NotFound"
GroupNotFound == "InvalidGroup.NotFound"
Faults == {NoFault, OtherCode}

Ok(payload) == [ok |-> TRUE, code |-> NoFault, payload |-> payload]
ClientError(code) == [ok |-> FALSE, code |-> code, payload |-> <<>>]
ErrText(code) == "An error occurred (" \o code \o ")"

RECURSIVE SeqsUpTo(_, _)
SeqsUpTo(S, n) ==
    IF n = 0 THEN {<<>>}
    ELSE LET shorter == SeqsUpTo(S, n - 1)
         IN shorter \cup {Append(s, x) : s \in {t \in shorter : Len(t) = n - 1}, x \in S}

(* variant: "is not None" in place of truthiness *)
Truthy_is_not_none(v) == v # None

(* truthiness of a Python value that is None or a string *)
Truthy(v) == v # None /\ v # ""

(* ---------------- get_free_tier_instance_type ---------------- *)
TypeResponses ==
    {Ok(l) : l \in SeqsUpTo(TypeNames, MaxTypes)} \cup {ClientError(OtherCode)}

(* variant: the fallback the messages announce, t2.micro, is returned *)
get_free_tier_instance_type_t2(resp) ==
    IF resp.ok /\ Len(resp.payload) > 0
    THEN [ret |-> resp.payload[1],
          out |-> <<"Found free-tier instance type: " \o resp.payload[1]>>]
    ELSE [ret |-> "t2.micro", out |-> <<"using t2.micro as fallback">>]

get_free_tier_instance_type(resp) ==
    IF resp.ok
    THEN IF Len(resp.payload) > 0
         THEN [ret |-> resp.payload[1],
               out |-> <<"Found free-tier instance type: " \o resp.payload[1]>>]
         ELSE [ret |-> "t3.micro",
               out |-> <<"No free-tier instance types found, using t2.micro as fallback">>]
    ELSE [ret |-> "t3.micro",
          out |-> <<"Error querying instance types: " \o ErrText(resp.code)
                    \o ", using t2.micro as fallback">>]

(* ---------------- check_key_pair ---------------- *)
describe_key_pairs(keys, key_name, fault) ==
    IF fault # NoFault THEN ClientError(fault)
    ELSE IF key_name \in keys THEN Ok(<<key_name>>)
    ELSE ClientError(KeyNotFound)

(* variant: only the presence of the local .pem file decides the result *)
check_key_pair_local_only(key_name, resp, pem_exists) ==
    [ret |-> pem_exists,
     out |-> <<"Private key file '" \o key_name \o ".pem' checked locally.">>]

check_key_pair(key_name, resp, pem_exists) ==
    IF resp.ok
    THEN [ret |-> TRUE,
          out |-> <<"Key pair '" \o key_name \o "' found in AWS.">>
                  \o (IF pem_exists
                      THEN <<"Private key file '" \o key_name \o ".pem' found locally.">>
                      ELSE <<"Warning: Private key file '" \o key_name
                             \o ".pem' not found in current directory.">>)]
    ELSE IF resp.code = KeyNotFound
         THEN [ret |-> FALSE,
               out |-> <<"ERROR: Key pair '" \o key_name \o "' does not exist in AWS!">>]
         ELSE [ret |-> FALSE,
               out |-> <<"Error checking key pair: " \o ErrText(resp.code)>>]

(* ---------------- create_security_group ---------------- *)
(* The account's groups, in creation order.  The provider is modelled       *)
(* without a uniqueness check on names, so that "at most one group of that  *)
(* name" rests on the script's lookup-before-create alone.                  *)
ec2_describe_security_groups(groups, name, fault) ==
    IF fault # NoFault THEN ClientError(fault)
    ELSE LET found == SelectSeq(groups, LAMBDA g : g.GroupName = name)
         IN IF found = <<>> THEN ClientError(GroupNotFound) ELSE Ok(found)

ec2_create_security_group(groups, next_id, name, desc, fault) ==
    IF fault # NoFault
    THEN [resp |-> ClientError(fault), groups |-> groups, next_id |-> next_id]
    ELSE LET gid == "sg-" \o Digits[next_id + 1]
         IN [resp |-> Ok(gid),
             groups |-> Append(groups, [GroupId |-> gid, GroupName |-> name,
                                        Description |-> desc, IpPermissions |-> <<>>]),
             next_id |-> next_id + 1]

ec2_authorize_security_group_ingress(groups, gid, perm, fault) ==
    IF fault # NoFault
    THEN [resp |-> ClientError(fault), groups |-> groups]
    ELSE [resp |-> Ok(gid),
          groups |-> [i \in DOMAIN groups |->
                        IF groups[i].GroupId = gid
                        THEN [groups[i] EXCEPT !.IpPermissions = Append(@, perm)]
                        ELSE groups[i]]]

(* variant: a failed authorization is reported but the identifier of the   *)
(* group just created is returned all the same                              *)
create_group_with_ssh_rule_keeps_id(groups, next_id, fc, fa) ==
    LET created == ec2_create_security_group(groups, next_id, group_name, description, fc)
    IN IF ~created.resp.ok
       THEN [ret |-> None, groups |-> created.groups, next_id |-> created.next_id,
             calls |-> <<"create_security_group">>,
             out |-> <<"Error creating security group: " \o ErrText(created.resp.code)>>]
       ELSE LET authorized == ec2_authorize_security_group_ingress(
                                  created.groups, created.resp.payload, ssh_rule, fa)
            IN [ret |-> created.resp.payload, groups |-> authorized.groups,
                next_id |-> created.next_id,
                calls |-> <<"create_security_group", "authorize_security_group_ingress">>,
                out |-> <<"Security Group Created: " \o created.resp.payload>>]

(* lines 83-108, the branch taken when the lookup says "not found".        *)
(* fc, fa: the fault, if any, the provider answers the creation and the     *)
(* authorization with, when that call is made.                              *)
create_group_with_ssh_rule(groups, next_id, fc, fa) ==
    LET created == ec2_create_security_group(groups, next_id, group_name, description, fc)
    IN IF ~created.resp.ok
       THEN [ret |-> None, groups |-> created.groups, next_id |-> created.next_id,
             calls |-> <<"create_security_group">>,
             out |-> <<"Creating new security group: '" \o group_name \o "'",
                       "Error creating security group: " \o ErrText(created.resp.code)>>]
       ELSE LET security_group_id == created.resp.payload
                authorized == ec2_authorize_security_group_ingress(
                                  created.groups, security_group_id, ssh_rule, fa)
            IN IF ~authorized.resp.ok
               THEN [ret |-> None, groups |-> authorized.groups,
                     next_id |-> created.next_id,
                     calls |-> <<"create_security_group",
                                 "authorize_security_group_ingress">>,
                     out |-> <<"Creating new security group: '" \o group_name \o "'",
                               "Security Group Created: " \o security_group_id,
                               "Error creating security group: "
                                   \o ErrText(authorized.resp.code)>>]
               ELSE [ret |-> security_group_id, groups |-> authorized.groups,
                     next_id |-> created.next_id,
                     calls |-> <<"create_security_group",
                                 "authorize_security_group_ingress">>,
                     out |-> <<"Creating new security group: '" \o group_name \o "'",
                               "Security Group Created: " \o security_group_id,
                               "SSH rule added (Port 22 open to world).">>]

(* fl: the fault, if any, the provider answers the lookup with *)
create_security_group(groups, next_id, fl, fc, fa) ==
    LET looked == ec2_describe_security_groups(groups, group_name, fl)
    IN IF looked.ok
       THEN [ret |-> looked.payload[1].GroupId, groups |-> groups, next_id |-> next_id,
             calls |-> <<"describe_security_groups">>,
             out |-> <<"Security group '" \o group_name \o "' already exists. Using it.">>]
       ELSE IF looked.code = GroupNotFound
       THEN LET r == create_group_with_ssh_rule(groups, next_id, fc, fa)
            IN [r EXCEPT !.calls = <<"describe_security_groups">> \o @]
       ELSE [ret |-> None, groups |-> groups, next_id |-> next_id,
             calls |-> <<"describe_security_groups">>,
             out |-> <<"Error checking for security group: " \o ErrText(looked.code)>>]

(* ---------------- print_windows_connection_instructions ---------------- *)
print_windows_connection_instructions(key_name, public_ip) ==
    IF ~Truthy(public_ip) THEN <<>>
    ELSE <<"WINDOWS CONNECTION INSTRUCTIONS",
           "Public IP: " \o public_ip,
           "Username: ec2-user",
           "Key file: " \o key_name \o ".pem",
           "Option 1: Using MobaXterm (Recommended for Windows)",
           "  4. Advanced SSH settings -> Use private key: " \o key_name \o ".pem",
           "Option 2: Using PuTTY",
           "  3. Host: ec2-user@" \o public_ip,
           "Option 3: Using AWS Session Manager (No SSH client needed)">>

(* the four f.write calls of main, one line each (the trailing "\n" is the  *)
(* line break)                                                              *)
report_lines(instance_id, public_ip, key_name) ==
    <<"Instance ID: " \o instance_id,
      "Public IP: " \o public_ip,
      "Key Pair: " \o key_name \o ".pem",
      "Connect: ec2-user@" \o public_ip>>

(* variant: the file is opened in append mode *)
open_a_and_write(old_file, lines) == [exists |-> TRUE, lines |-> old_file.lines \o lines]

(* open(path, 'w') followed by the writes: the old content is dropped *)
open_w_and_write(old_file, lines) == [exists |-> TRUE, lines |-> lines]

(* variant: the instance type is the literal, not the looked-up one *)
launch_request_fixed_type(instance_type, key_name, sg_id) ==
    [ImageId |-> ami_id, MinCount |-> 1, MaxCount |-> 1,
     InstanceType |-> "t3.micro", KeyName |-> key_name,
     SecurityGroupIds |-> <<sg_id>>,
     TagSpecifications |-> <<[ResourceType |-> "instance", Tags |-> <<name_tag>>]>>]

(* the request main passes to ec2_resource.create_instances *)
launch_request(instance_type, key_name, sg_id) ==
    [ImageId |-> ami_id, MinCount |-> 1, MaxCount |-> 1,
     InstanceType |-> instance_type, KeyName |-> key_name,
     SecurityGroupIds |-> <<sg_id>>,
     TagSpecifications |-> <<[ResourceType |-> "instance", Tags |-> <<name_tag>>]>>]

(* what "except ClientError" in main catches *)
caught_by_main(exc_kind) == exc_kind = "ClientError"

(* ---------------- state ---------------- *)
VARIABLES
    aws_keys,          \* names of the key pairs that exist in the account
    pem_files,         \* key names whose <name>.pem is in the working directory
    groups,            \* the account's security groups, in creation order
    next_group_id,     \* index of the next group identifier the provider assigns
    next_instance_id,  \* index of the next instance identifier the provider assigns
    ec2_instance,      \* the provider's record of the instance this run launched
    report_file,       \* instance_connection.txt: [exists, lines]
    run,               \* number of the current run of the script
    pc,                \* position of main() in the current run
    exit,              \* "running", "returned" (main returned) or "raised"
    key_name,          \* main's local key_name
    instance_type,     \* main's local instance_type
    sg_id,             \* main's local sg_id
    instance,          \* main's local boto3 resource: [id, state, public_ip]
    out,               \* console lines printed in this run
    calls,             \* provider calls made in this run, in order
    launched,          \* the create_instances request of this run, if any
    key_resp,          \* the provider's answer to this run's key-pair lookup
    type_resp,         \* the provider's answer to this run's type query
    sg_faults,         \* the faults this run's group calls, if made, were answered with
    file_at_start,     \* report_file as it was when this run started
    sg_prev,           \* previous invocation of create_security_group
    sg_last            \* latest invocation: [ret, calls, lookup_fault]

vars == <<aws_keys, pem_files, groups, next_group_id, next_instance_id, ec2_instance,
          report_file, run, pc, exit, key_name, instance_type, sg_id, instance, out,
          calls, launched, key_resp, type_resp, sg_faults, file_at_start, sg_prev,
          sg_last>>

account == <<aws_keys, pem_files, groups, next_group_id, next_instance_id>>
sg_history == <<sg_prev, sg_last>>

NoInstance == [id |-> None, state |-> None, public_ip |-> None]
NoRequest == [ImageId |-> None]
NoResponse == [ok |-> FALSE, code |-> None, payload |-> <<>>]
NoFaults == <<None, None, None>>
NoCall == [ret |-> None, calls |-> <<>>, lookup_fault |-> None]
NoFile == [exists |-> FALSE, lines |-> <<>>]
StaleFile == [exists |-> TRUE, lines |-> <<"Instance ID: i-0abc", "Public IP: 192.0.2.1",
                                           "Key Pair: old.pem", "Connect: ec2-user@192.0.2.1">>]

banner == <<"EC2 Instance Creator with Free-Tier Detection">>
failed_to_launch(code) == <<"Failed to launch instance: " \o ErrText(code)>>

Init ==
    /\ aws_keys \in SUBSET KeyNames
    /\ pem_files \in SUBSET {key_name_literal}
    /\ groups = <<>>
    /\ next_group_id = 0
    /\ next_instance_id = 0
    /\ ec2_instance = NoInstance
    /\ report_file \in {NoFile, StaleFile}
    /\ run = 1
    /\ pc = "check_key_pair"
    /\ exit = "running"
    /\ key_name = None
    /\ instance_type = None
    /\ sg_id = None
    /\ instance = NoInstance
    /\ out = <<>>
    /\ calls = <<>>
    /\ launched = NoRequest
    /\ key_resp = NoResponse
    /\ type_resp = NoResponse
    /\ sg_faults = NoFaults
    /\ file_at_start = report_file
    /\ sg_prev = NoCall
    /\ sg_last = NoCall

(* ---------------- main, step by step ---------------- *)
(* lines 143-153: banner, key_name, check_key_pair and the early return *)
MainCheckKeyPair ==
    /\ pc = "check_key_pair"
    /\ \E fault \in Faults :
         LET resp == describe_key_pairs(aws_keys, key_name_literal, fault)
             r == check_key_pair(key_name_literal, resp, key_name_literal \in pem_files)
         IN /\ key_name' = key_name_literal
            /\ key_resp' = resp
            /\ calls' = Append(calls, "describe_key_pairs")
            /\ IF r.ret
               THEN /\ out' = out \o banner \o r.out
                    /\ pc' = "get_free_tier_instance_type"
                    /\ exit' = exit
               ELSE /\ out' = out \o banner \o r.out
                                  \o <<"Failed due to missing key pair. Exiting.">>
                    /\ pc' = "done"
                    /\ exit' = "returned"
    /\ UNCHANGED <<account, ec2_instance, report_file, run, instance_type, sg_id, instance,
                   launched, type_resp, sg_faults, file_at_start, sg_history>>

(* line 156 *)
MainGetInstanceType ==
    /\ pc = "get_free_tier_instance_type"
    /\ \E resp \in TypeResponses :
         LET r == get_free_tier_instance_type(resp)
         IN /\ type_resp' = resp
            /\ instance_type' = r.ret
            /\ out' = out \o r.out
            /\ calls' = Append(calls, "describe_instance_types")
    /\ pc' = "create_security_group"
    /\ UNCHANGED <<account, ec2_instance, report_file, run, exit, key_name, sg_id, instance,
                   launched, key_resp, sg_faults, file_at_start, sg_history>>

(* lines 159-162 *)
MainCreateSecurityGroup ==
    /\ pc = "create_security_group"
    /\ \E fl \in Faults, fc \in Faults, fa \in Faults :
         LET r == create_security_group(groups, next_group_id, fl, fc, fa)
         IN /\ groups' = r.groups
            /\ next_group_id' = r.next_id
            /\ sg_id' = r.ret
            /\ sg_faults' = <<fl, IF Len(r.calls) >= 2 THEN fc ELSE None,
                                   IF Len(r.calls) >= 3 THEN fa ELSE None>>
            /\ calls' = calls \o r.calls
            /\ sg_prev' = sg_last
            /\ sg_last' = [ret |-> r.ret, calls |-> r.calls, lookup_fault |-> fl]
            /\ IF Truthy(r.ret)
               THEN /\ out' = out \o r.out
                    /\ pc' = "create_instances"
                    /\ exit' = exit
               ELSE /\ out' = out \o r.out \o <<"Failed to get a security group. Exiting.">>
                    /\ pc' = "done"
                    /\ exit' = "returned"
    /\ UNCHANGED <<aws_keys, pem_files, next_instance_id, ec2_instance, report_file, run,
                   key_name, instance_type, instance, launched, key_resp, type_resp,
                   file_at_start>>

(* lines 167-189 and the handler of lines 214-215 *)
MainCreateInstances ==
    /\ pc = "create_instances"
    /\ \E fault \in Faults :
         /\ launched' = launch_request(instance_type, key_name, sg_id)
         /\ calls' = Append(calls, "create_instances")
         /\ IF fault # NoFault
            THEN /\ out' = out \o failed_to_launch(fault)
                 /\ pc' = "done"
                 /\ exit' = "returned"
                 /\ UNCHANGED <<next_instance_id, ec2_instance, instance>>
            ELSE LET id == "i-" \o Digits[next_instance_id + 1]
                     made == [id |-> id, state |-> "pending", public_ip |-> None]
                 IN /\ next_instance_id' = next_instance_id + 1
                    /\ ec2_instance' = made
                    /\ instance' = made
                    /\ out' = out \o <<"SUCCESS: EC2 Instance Launched!",
                                       "Instance ID: " \o id,
                                       "Instance Type: " \o instance_type,
                                       "Key Pair: " \o key_name,
                                       "Security Group: " \o sg_id>>
                    /\ pc' = "wait_until_running"
                    /\ exit' = exit
    /\ UNCHANGED <<aws_keys, pem_files, groups, next_group_id, report_file, run, key_name,
                   instance_type, sg_id, key_resp, type_resp, sg_faults, file_at_start,
                   sg_history>>

(* lines 192-193: the waiter polls until the provider reports "running", or *)
(* gives up and raises WaiterError, which is not a ClientError.  The        *)
(* provider assigns the public address, if any, when the instance starts.   *)
MainWaitUntilRunning ==
    /\ pc = "wait_until_running"
    /\ calls' = Append(calls, "wait_until_running")
    /\ \/ \E ip \in PublicIps :
            /\ ec2_instance' = [ec2_instance EXCEPT !.state = "running", !.public_ip = ip]
            /\ out' = Append(out, "Waiting for instance to initialize...")
            /\ pc' = "load"
            /\ exit' = exit
       \/ /\ ec2_instance' = ec2_instance
          /\ IF caught_by_main("WaiterError")
             THEN /\ out' = out \o <<"Waiting for instance to initialize...">>
                                 \o failed_to_launch("WaiterError")
                  /\ exit' = "returned"
             ELSE /\ out' = Append(out, "Waiting for instance to initialize...")
                  /\ exit' = "raised"
          /\ pc' = "done"
    /\ UNCHANGED <<account, report_file, run, key_name, instance_type, sg_id, instance,
                   launched, key_resp, type_resp, sg_faults, file_at_start, sg_history>>

(* line 194: instance.load() copies the provider's record into the resource *)
MainLoad ==
    /\ pc = "load"
    /\ calls' = Append(calls, "load")
    /\ \E fault \in Faults :
         IF fault # NoFault
         THEN IF caught_by_main("ClientError")
              THEN /\ out' = out \o failed_to_launch(fault)
                   /\ pc' = "done"
                   /\ exit' = "returned"
                   /\ instance' = instance
              ELSE /\ out' = out
                   /\ pc' = "done"
                   /\ exit' = "raised"
                   /\ instance' = instance
         ELSE /\ instance' = ec2_instance
              /\ out' = out
              /\ pc' = "report"
              /\ exit' = exit
    /\ UNCHANGED <<account, ec2_instance, report_file, run, key_name, instance_type, sg_id,
                   launched, key_resp, type_resp, sg_faults, file_at_start, sg_history>>

(* lines 196-212 *)
MainReport ==
    /\ pc = "report"
    /\ IF Truthy(instance.public_ip)
       THEN /\ report_file' = open_w_and_write(report_file,
                                  report_lines(instance.id, instance.public_ip, key_name))
            /\ out' = out \o <<"Instance State: " \o instance.state,
                               "Public IP: " \o instance.public_ip>>
                          \o print_windows_connection_instructions(key_name,
                                                                   instance.public_ip)
                          \o <<"Connection info saved to '" \o report_path \o "'",
                               "aws ec2 describe-instances --instance-ids " \o instance.id>>
       ELSE /\ report_file' = report_file
            /\ out' = out \o <<"Instance State: " \o instance.state,
                               "aws ec2 describe-instances --instance-ids " \o instance.id>>
    /\ pc' = "done"
    /\ exit' = "returned"
    /\ UNCHANGED <<account, ec2_instance, run, key_name, instance_type, sg_id, instance,
                   calls, launched, key_resp, type_resp, sg_faults, file_at_start,
                   sg_history>>

(* the script is started again on the same account and directory *)
NewRun ==
    /\ pc = "done"
    /\ run < MaxRuns
    /\ run' = run + 1
    /\ pc' = "check_key_pair"
    /\ exit' = "running"
    /\ key_name' = None
    /\ instance_type' = None
    /\ sg_id' = None
    /\ instance' = NoInstance
    /\ ec2_instance' = NoInstance
    /\ out' = <<>>
    /\ calls' = <<>>
    /\ launched' = NoRequest
    /\ key_resp' = NoResponse
    /\ type_resp' = NoResponse
    /\ sg_faults' = NoFaults
    /\ file_at_start' = report_file
    /\ UNCHANGED <<account, report_file, sg_history>>

Next ==
    \/ MainCheckKeyPair
    \/ MainGetInstanceType
    \/ MainCreateSecurityGroup
    \/ MainCreateInstances
    \/ MainWaitUntilRunning
    \/ MainLoad
    \/ MainReport
    \/ NewRun

Spec == Init /\ [][Next]_vars

(* ---------------- helpers of the properties ---------------- *)
Printed(line) == \E i \in DOMAIN out : out[i] = line
Called(op) == \E i \in DOMAIN calls : calls[i] = op
NamedGroups == SelectSeq(groups, LAMBDA g : g.GroupName = "python-sg-for-ssh")
Port22Rule == [IpProtocol |-> "tcp", FromPort |-> 22, ToPort |-> 22, CidrIp |-> "0.0.0.0/0"]
InstructionsPrinted == Printed("WINDOWS CONNECTION INSTRUCTIONS")
ReportSaved == Printed("Connection info saved to 'instance_connection.txt'")

(* the position of each provider call in the order of main's steps *)
StepOf(op) ==
    CASE op = "describe_key_pairs" -> 1
      [] op = "describe_instance_types" -> 2
      [] op = "describe_security_groups" -> 3
      [] op = "create_security_group" -> 4
      [] op = "authorize_security_group_ingress" -> 5
      [] op = "create_instances" -> 6
      [] op = "wait_until_running" -> 7
      [] op = "load" -> 8

(* C1: when the key-pair lookup answers "not found", check_key_pair returns *)
(* false for every credential name, and the run makes no provider call      *)
(* after the lookup, launches nothing and leaves the report file alone.     *)
C1_NotFoundStopsRun ==
    /\ \A k \in KeyNames, pem \in BOOLEAN :
         check_key_pair(k, describe_key_pairs(aws_keys \ {k}, k, NoFault), pem).ret = FALSE
    /\ key_resp.code = "InvalidKeyPair.NotFound" =>
         /\ calls = <<"describe_key_pairs">>
         /\ pc = "done" /\ exit = "returned"
         /\ launched = NoRequest
         /\ instance = NoInstance
         /\ sg_id = None /\ instance_type = None
         /\ report_file = file_at_start
         /\ ~ReportSaved

C1_Witness ==
    /\ key_resp.code = "InvalidKeyPair.NotFound"
    /\ pc = "done"
    /\ run = 2
    /\ Printed("Failed due to missing key pair. Exiting.")

(* C3: when the lookup answers "group not found" and the creation and the   *)
(* authorization succeed, the calls are lookup, creation, authorization in  *)
(* that order, the new group has the fixed description and exactly the one  *)
(* tcp/22 rule from 0.0.0.0/0, and the identifier assigned at creation is   *)
(* returned.                                                                *)
C3_CreateWithRule ==
    (Called("create_security_group") /\ sg_faults[2] = NoFault /\ sg_faults[3] = NoFault) =>
        /\ sg_last.calls = <<"describe_security_groups", "create_security_group",
                             "authorize_security_group_ingress">>
        /\ Len(NamedGroups) = 1
        /\ NamedGroups[1].Description = "Security group for EC2 instance created via Python"
        /\ NamedGroups[1].IpPermissions = <<Port22Rule>>
        /\ NamedGroups[1].GroupId = "sg-" \o Digits[next_group_id]
        /\ sg_id = NamedGroups[1].GroupId
        /\ sg_last.ret = sg_id

C3_Witness ==
    /\ Called("create_security_group")
    /\ sg_faults = <<NoFault, NoFault, NoFault>>
    /\ pc = "create_instances"
    /\ sg_id = "sg-0"

(* C4: the type lookup returns the first entry of a non-empty response and  *)
(* 't3.micro' for an empty response or a query error, and the run goes on   *)
(* to the group step in every case.                                         *)
C4_TypeSelection ==
    /\ \A resp \in TypeResponses :
         get_free_tier_instance_type(resp).ret =
            IF resp.ok /\ resp.payload # <<>> THEN Head(resp.payload) ELSE "t3.micro"
    /\ Called("describe_instance_types") =>
         /\ instance_type = IF type_resp.ok /\ type_resp.payload # <<>>
                            THEN Head(type_resp.payload) ELSE "t3.micro"
         /\ pc # "get_free_tier_instance_type"
         /\ (pc = "create_security_group" => exit = "running")

C4_Witness ==
    /\ pc = "create_security_group"
    /\ ~type_resp.ok
    /\ instance_type = "t3.micro"
    /\ Printed("Key pair 'my-python-key' found in AWS.")

(* C5: when the refreshed instance is running and has no public address     *)
(* (None or empty), the report file is as it was when the run started and   *)
(* neither the address nor the connection instructions are printed.         *)
C5_NoAddressNoReport ==
    (instance.state = "running" /\ instance.public_ip \in {None, ""}) =>
        /\ report_file = file_at_start
        /\ ~InstructionsPrinted
        /\ ~ReportSaved
        /\ \A i \in DOMAIN out : out[i] # "Public IP: " \o instance.public_ip

C5_Witness ==
    /\ pc = "done" /\ exit = "returned"
    /\ Called("load")
    /\ instance.state = "running"
    /\ instance.public_ip = ""
    /\ report_file = StaleFile

(* C6: the provider calls of a run are made in the order key-pair lookup,  *)
(* type query, group calls, launch, wait, refresh, none skipped and none    *)
(* repeated; a step is reached only after the earlier ones returned a       *)
(* usable value; the launch request carries the looked-up type and the      *)
(* group identifier the group step returned; the report is written only     *)
(* after the wait returned and the refresh showed the instance running.     *)
C6_StepOrder ==
    /\ \A i \in DOMAIN calls : \A j \in DOMAIN calls :
          i < j => StepOf(calls[i]) < StepOf(calls[j])
    /\ \A i \in DOMAIN calls :
          /\ StepOf(calls[i]) >= 2 => i > 1 /\ calls[1] = "describe_key_pairs" /\ key_resp.ok
          /\ StepOf(calls[i]) >= 3 => i > 2 /\ calls[2] = "describe_instance_types"
          /\ StepOf(calls[i]) >= 4 => i > 3 /\ calls[3] = "describe_security_groups"
          /\ StepOf(calls[i]) = 5 => calls[i - 1] = "create_security_group"
          /\ StepOf(calls[i]) = 6 => /\ StepOf(calls[i - 1]) \in {3, 5}
                                     /\ sg_id # None /\ sg_id # ""
                                     /\ sg_id = sg_last.ret
          /\ StepOf(calls[i]) = 7 => calls[i - 1] = "create_instances" /\ instance.id # None
          /\ StepOf(calls[i]) = 8 => calls[i - 1] = "wait_until_running"
                                     /\ ec2_instance.state = "running"
    /\ Called("create_instances") =>
          /\ launched.InstanceType = IF type_resp.ok /\ type_resp.payload # <<>>
                                     THEN Head(type_resp.payload) ELSE "t3.micro"
          /\ launched.InstanceType = instance_type
          /\ launched.SecurityGroupIds = <<sg_last.ret>>
          /\ launched.KeyName = "my-python-key"
          /\ launched.ImageId = "ami-0c02fb55956c7d316"
          /\ launched.MinCount = 1 /\ launched.MaxCount = 1
    /\ ~Called("create_instances") => launched = NoRequest
    /\ (report_file # file_at_start \/ ReportSaved \/ InstructionsPrinted) =>
          /\ Called("load")
          /\ instance = ec2_instance
          /\ instance.state = "running"
          /\ pc = "done"

C6_Witness ==
    /\ pc = "done"
    /\ ReportSaved
    /\ Len(calls) = 8
    /\ launched.InstanceType = "t2.micro"
    /\ run = 1

(* C7: when the group lookup fails with another error than "not found", or  *)
(* the creation fails, or the authorization fails, create_security_group    *)
(* returns None and the run ends without a launch request and without       *)
(* touching the report file.                                                *)
C7_GroupErrorStopsRun ==
    (\/ Called("describe_security_groups") /\ sg_faults[1] # NoFault
     \/ Called("create_security_group") /\ sg_faults[2] # NoFault
     \/ Called("authorize_security_group_ingress") /\ sg_faults[3] # NoFault) =>
        /\ sg_id = None
        /\ sg_last.ret = None
        /\ pc = "done" /\ exit = "returned"
        /\ ~Called("create_instances")
        /\ launched = NoRequest
        /\ instance = NoInstance
        /\ report_file = file_at_start
        /\ Printed("Failed to get a security group. Exiting.")

C7_Witness ==
    /\ Called("authorize_security_group_ingress")
    /\ sg_faults[3] # NoFault
    /\ pc = "done"
    /\ Len(groups) = 1

C8_NoExceptionEscapes == exit # "raised"

(* C10: whenever a run has requested an instance, the group whose           *)
(* identifier it passed carries the port-22 rule.                           *)
C10_LaunchedGroupHasRule ==
    Called("create_instances") =>
        \E i \in DOMAIN groups :
            /\ groups[i].GroupId = launched.SecurityGroupIds[1]
            /\ \E k \in DOMAIN groups[i].IpPermissions :
                   groups[i].IpPermissions[k] = Port22Rule

(* C2: when the previous invocation of create_security_group returned an    *)
(* identifier and the lookup of the next one is answered, the next one      *)
(* returns the same identifier with the lookup as its only provider call,   *)
(* and there is one group of that name, with exactly one port-22 rule.      *)
C2_Idempotent ==
    (sg_prev.ret \notin {None, ""} /\ sg_last.lookup_fault = NoFault) =>
        /\ sg_last.ret = sg_prev.ret
        /\ sg_last.calls = <<"describe_security_groups">>
        /\ Len(NamedGroups) <= 1
        /\ \A i \in DOMAIN NamedGroups : NamedGroups[i].IpPermissions = <<Port22Rule>>

====
